---- MODULE Spec2Model ----
(***************************************************************************)
(* Model of uptime-lab/compute-blade-pwm-fan-control.                      *)
(*                                                                         *)
(*   src/fan_control.py     the duty-control process: startup, profile     *)
(*                          resolution, the curve engine and the tick loop *)
(*   src/read_fan_speed.py  the RPM-reading process: the edge callback,    *)
(*                          the pulse counter under pulse_lock, the tick   *)
(*                          loop that drains it and prints the RPM         *)
(*                                                                         *)
(* The two programs are separate processes without shared state, so each   *)
(* has its own specification: Spec (fan_control.py), TachSpec              *)
(* (read_fan_speed.py) and ProfileSpec (the profile resolution of          *)
(* fan_control.py with the override file kept as observable state).        *)
(*                                                                         *)
(* Python floats are modelled as exact rationals <<numerator, denominator>>*)
(* in lowest terms with a positive denominator.  Every comparison the code *)
(* makes is against a value that is exactly representable (0.0, 0.5, 1.0,  *)
(* 40, 45, 70), and float rounding is monotone, so the branches taken are  *)
(* the same as with floats.                                                *)
(***************************************************************************)
EXTENDS Integers, Sequences, FiniteSets, TLC

VARIABLES
    \* ---- fan_control.py
    fpc,            \* position of the main thread
    fanExit,        \* "running", "exit0", "fault" (uncaught exception), "killed" (by signal)
    raised,         \* which call raised the exception that was not caught, or "none"
    profile,        \* FanProfile chosen at line 199
    curve_fn,       \* the curve function select_curve returned
    temperature,    \* the value getCpuTemperature returned in this tick
    speed,          \* handleFanSpeed's local
    fanState,       \* what the PWM device was last successfully told
    tickActions,    \* the PWM calls issued in the current tick (observation)
    fanSigterm,     \* a SIGTERM was delivered while the loop was running (observation)
    pfile,          \* the override file as found at line 99 (observation, ProfileSpec only)
    \* ---- read_fan_speed.py
    pulse_count,    \* the global counter
    pulse_lock,     \* owner of the Lock, or Free
    cpc,            \* position of each callback context
    ctmp,           \* each callback's loaded value of pulse_count (pulse_count += 1)
    mpc,            \* position of the main thread
    clock,          \* the monotonic clock
    last, now, interval, pulses, rpm,   \* the main loop's locals
    printed,        \* the number printed by line 40
    tachExit,       \* "running", "exit0", "killed"
    tachSigterm,    \* a SIGTERM was delivered (observation)
    invoked,        \* callback invocations so far (observation)
    drainedTotal,   \* sum of the counts the drains returned (observation)
    sinceDrain,     \* callbacks that completed their increment since the last drain (observation)
    window,         \* sinceDrain as it was when the last drain reset the counter (observation)
    elapsed,        \* clock time passed since the last clock read (observation)
    tickElapsed     \* elapsed as it was at the last clock read (observation)

fanVars == <<fpc, fanExit, raised, profile, curve_fn, temperature, speed,
             fanState, tickActions, fanSigterm, pfile>>
tachVars == <<pulse_count, pulse_lock, cpc, ctmp, mpc, clock, last, now, interval,
              pulses, rpm, printed, tachExit, tachSigterm, invoked, drainedTotal,
              sinceDrain, window, elapsed, tickElapsed>>
vars == <<fanVars, tachVars>>

(***************************************************************************)
(* Bounds of the model.                                                    *)
(***************************************************************************)
\* sensor readings are multiples of 1/Resolution degree
Resolution == 2
\* lowest and highest sensor reading, in degrees
MinTempC == 36
MaxTempC == 74
\* longest run of whitespace before and after the word in the override file
MaxPad == 2
\* callback contexts that may run pressed() concurrently
NumCallbacks == 2
\* tachometer edges delivered in a run
MaxEdges == 4
\* the monotonic clock stops advancing at MaxClock; one sleep lasts at most MaxDt
MaxClock == 4
MaxDt == 2

(***************************************************************************)
(* Exact rational arithmetic standing for Python's float arithmetic.       *)
(***************************************************************************)
Abs(x) == IF x < 0 THEN -x ELSE x

RECURSIVE GCD(_, _)
GCD(a, b) == IF b = 0 THEN a ELSE GCD(b, a % b)

\* n/d in lowest terms, d > 0
Rat(n, d) ==
    LET s == IF d < 0 THEN -1 ELSE 1
        g == GCD(Abs(n), Abs(d))
    IN  <<(s * n) \div g, (s * d) \div g>>

Int2Rat(i) == <<i, 1>>
RatAdd(a, b) == Rat(a[1] * b[2] + b[1] * a[2], a[2] * b[2])
RatSub(a, b) == Rat(a[1] * b[2] - b[1] * a[2], a[2] * b[2])
RatMul(a, b) == Rat(a[1] * b[1], a[2] * b[2])
RatDiv(a, b) == Rat(a[1] * b[2], a[2] * b[1])
RatLE(a, b) == a[1] * b[2] <= b[1] * a[2]
RatLT(a, b) == a[1] * b[2] < b[1] * a[2]
RatMin(a, b) == IF RatLE(a, b) THEN a ELSE b
RatMax(a, b) == IF RatLE(a, b) THEN b ELSE a
Zero == Int2Rat(0)
One == Int2Rat(1)
Half == Rat(1, 2)

(***************************************************************************)
(* fan_control.py: constants.                                              *)
(***************************************************************************)
OFF_TEMP == 40
MIN_TEMP == 45
MAX_TEMP == 70
MilliPerDegree == 1000

LINEAR == "linear"
EASE_IN == "ease_in"
EASE_OUT == "ease_out"
EASE_IN_OUT == "ease_in_out"
FanProfile == {LINEAR, EASE_IN, EASE_OUT, EASE_IN_OUT}
None == "None"

(***************************************************************************)
(* fan_control.py: the curve engine.                                       *)
(***************************************************************************)
\* the sensor file holds millidegrees; rawMilli is its content as a number
getCpuTemperature(rawMilli) == RatDiv(rawMilli, Int2Rat(MilliPerDegree))

clamp_speed(s) == RatMax(Zero, RatMin(One, s))

\* variant: the fraction taken over MAX_TEMP instead of the width of the band
normalize_temperature_overMax(t) ==
    IF MAX_TEMP <= MIN_TEMP
    THEN IF RatLE(Int2Rat(MAX_TEMP), t) THEN One ELSE Zero
    ELSE IF RatLE(t, Int2Rat(MIN_TEMP)) THEN Zero
    ELSE IF RatLE(Int2Rat(MAX_TEMP), t) THEN One
    ELSE RatDiv(RatSub(t, Int2Rat(MIN_TEMP)), Int2Rat(MAX_TEMP))

normalize_temperature(t) ==
    IF MAX_TEMP <= MIN_TEMP
    THEN IF RatLE(Int2Rat(MAX_TEMP), t) THEN One ELSE Zero
    ELSE IF RatLE(t, Int2Rat(MIN_TEMP)) THEN Zero
    ELSE IF RatLE(Int2Rat(MAX_TEMP), t) THEN One
    ELSE RatDiv(RatSub(t, Int2Rat(MIN_TEMP)), Int2Rat(MAX_TEMP - MIN_TEMP))

linear_curve(p) == p

ease_in_curve(p) == RatMul(RatMul(p, p), p)

ease_out_curve(p) ==
    LET q == RatSub(p, One)
    IN  RatAdd(RatMul(RatMul(q, q), q), One)

ease_in_out_curve(p) ==
    IF RatLT(p, Half)
    THEN RatMul(Half, ease_in_curve(RatMul(Int2Rat(2), p)))
    ELSE RatAdd(RatMul(Half, ease_out_curve(RatSub(RatMul(Int2Rat(2), p), One))), Half)

\* select_curve returns a function; the model carries its name
select_curve(p) ==
    IF p = EASE_IN THEN "ease_in_curve"
    ELSE IF p = EASE_OUT THEN "ease_out_curve"
    ELSE IF p = EASE_IN_OUT THEN "ease_in_out_curve"
    ELSE "linear_curve"

\* the call curve_fn(progress)
call_curve(fn, p) ==
    CASE fn = "ease_in_curve" -> ease_in_curve(p)
      [] fn = "ease_out_curve" -> ease_out_curve(p)
      [] fn = "ease_in_out_curve" -> ease_in_out_curve(p)
      [] fn = "linear_curve" -> linear_curve(p)

\* variant: a ramp that starts at OFF_TEMP, with no silent band below MIN_TEMP
pwm_for_temperature_noBand(t, fn) ==
    IF RatLE(t, Int2Rat(OFF_TEMP)) THEN Zero
    ELSE clamp_speed(call_curve(fn,
            RatDiv(RatSub(t, Int2Rat(OFF_TEMP)), Int2Rat(MAX_TEMP - OFF_TEMP))))

pwm_for_temperature(t, fn) ==
    IF RatLE(t, Int2Rat(OFF_TEMP)) THEN Zero
    ELSE IF RatLT(t, Int2Rat(MIN_TEMP)) THEN Zero
    ELSE clamp_speed(call_curve(fn, normalize_temperature(t)))

\* variant: `speed < 0.0`
speed_is_off_strict(s) == RatLT(s, Zero)

\* handleFanSpeed's test `speed <= 0.0`
speed_is_off(s) == RatLE(s, Zero)


(***************************************************************************)
(* fan_control.py: profile resolution.  A file's text is a sequence of     *)
(* one-character strings.                                                  *)
(***************************************************************************)
Whitespace == {" ", "\n", "\t"}
LowerLetters == <<"a", "b", "e", "g", "i", "l", "n", "o", "r", "s", "t", "u">>
UpperLetters == <<"A", "B", "E", "G", "I", "L", "N", "O", "R", "S", "T", "U">>

\* str.lower() and str.upper() on one character
LowerChar(c) ==
    IF \E i \in DOMAIN UpperLetters : UpperLetters[i] = c
    THEN LowerLetters[CHOOSE i \in DOMAIN UpperLetters : UpperLetters[i] = c]
    ELSE c
UpperChar(c) ==
    IF \E i \in DOMAIN LowerLetters : LowerLetters[i] = c
    THEN UpperLetters[CHOOSE i \in DOMAIN LowerLetters : LowerLetters[i] = c]
    ELSE c

\* str.lower()
Lower(s) == [i \in DOMAIN s |-> LowerChar(s[i])]

RECURSIVE LStrip(_)
LStrip(s) == IF s = <<>> \/ Head(s) \notin Whitespace THEN s ELSE LStrip(Tail(s))
RECURSIVE RStrip(_)
RStrip(s) ==
    IF s = <<>> \/ s[Len(s)] \notin Whitespace THEN s ELSE RStrip(SubSeq(s, 1, Len(s) - 1))
\* str.strip()
Strip(s) == RStrip(LStrip(s))

W_linear == <<"l", "i", "n", "e", "a", "r">>
W_ease_in == <<"e", "a", "s", "e", "_", "i", "n">>
W_ease_out == <<"e", "a", "s", "e", "_", "o", "u", "t">>
W_ease_in_out == <<"e", "a", "s", "e", "_", "i", "n", "_", "o", "u", "t">>
W_bogus == <<"b", "o", "g", "u", "s">>

\* variant: FanProfile.from_string without the lower-casing
from_string_caseSensitive(value) ==
    LET normalized == Strip(value)
    IN  CASE normalized = W_linear -> LINEAR
          [] normalized = W_ease_in -> EASE_IN
          [] normalized = W_ease_out -> EASE_OUT
          [] normalized = W_ease_in_out -> EASE_IN_OUT
          [] OTHER -> None

\* FanProfile.from_string: mapping.get(value.strip().lower())
from_string(value) ==
    LET normalized == Lower(Strip(value))
    IN  CASE normalized = W_linear -> LINEAR
          [] normalized = W_ease_in -> EASE_IN
          [] normalized = W_ease_out -> EASE_OUT
          [] normalized = W_ease_in_out -> EASE_IN_OUT
          [] OTHER -> None

\* what open(FAN_PROFILE_PATH) and handle.read() meet
\* (`word` is what the model built the text from; the code reads `content` only)
MissingFile == [kind |-> "missing", content |-> <<>>, word |-> <<>>]
UnreadableFile == [kind |-> "oserror", content |-> <<>>, word |-> <<>>]
TextFile(s, w) == [kind |-> "text", content |-> s, word |-> w]
NoFile == [kind |-> "unobserved", content |-> <<>>, word |-> <<>>]

get_profile_override(f) ==
    IF f.kind = "missing" THEN None          \* except FileNotFoundError
    ELSE IF f.kind = "oserror" THEN None     \* except OSError
    ELSE LET raw == Strip(f.content)
         IN  IF raw = <<>> THEN None
             ELSE from_string(raw)

\* line 199: get_profile_override() or FanProfile.LINEAR
profile_or_default(f) ==
    LET o == get_profile_override(f)
    IN  IF o = None THEN LINEAR ELSE o

\* the override files of the model: a word in some capitalisation, padded with whitespace
RECURSIVE SeqsUpTo(_, _)
SeqsUpTo(S, n) ==
    IF n = 0 THEN {<<>>}
    ELSE LET shorter == SeqsUpTo(S, n - 1)
         IN  shorter \cup {<<c>> \o s : c \in S, s \in {x \in shorter : Len(x) = n - 1}}
Pads == SeqsUpTo(Whitespace, MaxPad)
Words == {W_linear, W_ease_in, W_ease_out, W_ease_in_out, W_bogus, <<>>,
          <<"e", "a", "s", "e", " ", "i", "n">>, <<"e", "a", "s", "e", "_">>,
          <<"l", "i", "n", "e", "a", "r", "_", "i", "n">>}
Styles == {"lower", "upper", "title"}
Styled(w, st) ==
    [i \in DOMAIN w |->
        CASE st = "upper" -> UpperChar(w[i])
          [] st = "title" -> IF i = 1 \/ w[i - 1] = "_" THEN UpperChar(w[i]) ELSE w[i]
          [] OTHER -> w[i]]
ProfileFiles ==
    {MissingFile, UnreadableFile}
    \cup {TextFile(lead \o Styled(w, st) \o trail, w) :
            lead \in Pads, trail \in Pads, w \in Words, st \in Styles}

(***************************************************************************)
(* fan_control.py: the process.                                            *)
(***************************************************************************)
Unset == <<0, 0>>
NoCall == [op |-> "none", v |-> Unset]
OffCall == [op |-> "off", v |-> Unset]
ValueCall(s) == [op |-> "value", v |-> s]

\* handleFanSpeed's branch: fan.off() when speed <= 0.0, else fan.value = speed
pwm_call(s) == IF speed_is_off(s) THEN OffCall ELSE ValueCall(s)

\* what the sensor file may hold, in millidegrees
Readings == {Rat(MilliPerDegree * k, Resolution) :
                k \in (MinTempC * Resolution)..(MaxTempC * Resolution)}

FanInit ==
    /\ fpc = "install_handler"
    /\ fanExit = "running"
    /\ raised = "none"
    /\ profile = None
    /\ curve_fn = None
    /\ temperature = Unset
    /\ speed = Unset
    /\ fanState = NoCall
    /\ tickActions = <<>>
    /\ fanSigterm = FALSE
    /\ pfile = NoFile

\* an exception no handler catches: the interpreter prints it and exits with status 1
Uncaught(what) ==
    /\ fanExit' = "fault"
    /\ raised' = what
    /\ fpc' = "ended"

\* line 188: signal.signal(SIGTERM, lambda *args: sys.exit(0)); then ensure_working_dir
\* and get_lgpio_factory, which catch what they raise
FanInstallHandler ==
    /\ fanExit = "running" /\ fpc = "install_handler"
    /\ fpc' = "open_pwm"
    /\ UNCHANGED <<fanExit, raised, profile, curve_fn, temperature, speed, fanState,
                   tickActions, fanSigterm, pfile>>

\* line 191: fan = PWMOutputDevice(PWM_PIN, ...); a failure is not caught
FanOpenPwm ==
    /\ fanExit = "running" /\ fpc = "open_pwm"
    /\ \E ok \in BOOLEAN :
        IF ok THEN fpc' = "set_frequency" /\ UNCHANGED <<fanExit, raised>>
        ELSE Uncaught("pwm_open")
    /\ UNCHANGED <<profile, curve_fn, temperature, speed, fanState, tickActions,
                   fanSigterm, pfile>>

\* lines 192-198: fan.frequency = PWM_FREQ_HZ; a failure is caught and printed
FanSetFrequency ==
    /\ fanExit = "running" /\ fpc = "set_frequency"
    /\ fpc' = "resolve_profile"
    /\ UNCHANGED <<fanExit, raised, profile, curve_fn, temperature, speed, fanState,
                   tickActions, fanSigterm, pfile>>

\* lines 199-200, the override file being f
FanResolveProfile(f) ==
    /\ fanExit = "running" /\ fpc = "resolve_profile"
    /\ profile' = profile_or_default(f)
    /\ curve_fn' = select_curve(profile')
    /\ fpc' = "read_temperature"
    /\ UNCHANGED <<fanExit, raised, temperature, speed, fanState, tickActions,
                   fanSigterm, pfile>>

\* line 202, the argument getCpuTemperature(): open or float() may raise
FanReadTemperature ==
    /\ fanExit = "running" /\ fpc = "read_temperature"
    /\ tickActions' = <<>>
    /\ \/ \E raw \in Readings :
            /\ temperature' = getCpuTemperature(raw)
            /\ fpc' = "handle"
            /\ UNCHANGED <<fanExit, raised>>
       \/ /\ Uncaught("sensor")
          /\ UNCHANGED temperature
    /\ UNCHANGED <<profile, curve_fn, speed, fanState, fanSigterm, pfile>>

\* line 202, the call handleFanSpeed(fan, temperature, curve_fn): lines 179-184.
\* The PWM call may raise, and then the device keeps what it had.
handleFanSpeed ==
    /\ fanExit = "running" /\ fpc = "handle"
    /\ speed' = pwm_for_temperature(temperature, curve_fn)
    /\ tickActions' = Append(tickActions, pwm_call(speed'))
    /\ \/ /\ fanState' = pwm_call(speed')
          /\ fpc' = "sleep"
          /\ UNCHANGED <<fanExit, raised>>
       \/ /\ Uncaught("pwm_write")
          /\ UNCHANGED fanState
    /\ UNCHANGED <<profile, curve_fn, temperature, fanSigterm, pfile>>

\* line 203: time.sleep(WAIT_TIME)
FanSleep ==
    /\ fanExit = "running" /\ fpc = "sleep"
    /\ fpc' = "read_temperature"
    /\ UNCHANGED <<fanExit, raised, profile, curve_fn, temperature, speed, fanState,
                   tickActions, fanSigterm, pfile>>

\* SIGTERM: once line 188 has run the handler raises SystemExit(0) in the main
\* thread, which `except KeyboardInterrupt` does not catch: exit status 0.
\* Before that the default disposition kills the process.
FanSigTerm ==
    /\ fanExit = "running"
    /\ fanExit' = IF fpc = "install_handler" THEN "killed" ELSE "exit0"
    /\ fanSigterm' = (fanSigterm \/ fpc \in {"read_temperature", "handle", "sleep"})
    /\ fpc' = "ended"
    /\ UNCHANGED <<raised, profile, curve_fn, temperature, speed, fanState,
                   tickActions, pfile>>

\* SIGINT: KeyboardInterrupt, caught at line 205, exit()
FanSigInt ==
    /\ fanExit = "running"
    /\ fanExit' = "exit0"
    /\ fpc' = "ended"
    /\ UNCHANGED <<raised, profile, curve_fn, temperature, speed, fanState,
                   tickActions, fanSigterm, pfile>>

(***************************************************************************)
(* read_fan_speed.py.                                                      *)
(***************************************************************************)
PULSE == 2

Free == <<"free", 0>>
Main == <<"main", 0>>
Callbacks == {<<"callback", i>> : i \in 1..NumCallbacks}

\* variant: no mutual exclusion
lock_available_unguarded(self) == TRUE

\* Lock.acquire() of `with pulse_lock:` blocks until the lock is free
lock_available(self) == pulse_lock = Free

\* variant: pressed() increments without taking the lock
pressed_entry_unlocked == "load"

\* where pressed() starts: at the `with pulse_lock:` of line 22
pressed_entry == "acquire"

\* variant: one pulse taken for one revolution
estimate_rpm_perPulse(p, i) ==
    IF i > 0 THEN RatMul(Int2Rat(p), RatDiv(Int2Rat(60), Int2Rat(i))) ELSE Zero

\* lines 37-39: rpm = 0.0; if interval > 0: rpm = (pulses / PULSE) * (60 / interval)
estimate_rpm(p, i) ==
    IF i > 0
    THEN RatMul(RatDiv(Int2Rat(p), Int2Rat(PULSE)), RatDiv(Int2Rat(60), Int2Rat(i)))
    ELSE Zero

\* line 40: f"{rpm:.0f}", the nearest integer, a tie going to the even one (rpm >= 0)
format_f0(r) ==
    LET q == r[1] \div r[2]
        twice == 2 * (r[1] % r[2])
    IN  IF twice < r[2] THEN q
        ELSE IF twice > r[2] THEN q + 1
        ELSE IF q % 2 = 0 THEN q ELSE q + 1

TachInit ==
    /\ pulse_count = 0
    /\ pulse_lock = Free
    /\ cpc = [c \in Callbacks |-> "idle"]
    /\ ctmp = [c \in Callbacks |-> 0]
    /\ mpc = "sleep"
    /\ clock = 0
    /\ last = 0          \* line 28
    /\ now = 0
    /\ interval = 0
    /\ pulses = 0
    /\ rpm = Zero
    /\ printed = 0
    /\ tachExit = "running"
    /\ tachSigterm = FALSE
    /\ invoked = 0
    /\ drainedTotal = 0
    /\ sinceDrain = 0
    /\ window = 0
    /\ elapsed = 0
    /\ tickElapsed = 0

mainLocals == <<last, now, interval, pulses, rpm, printed>>
timeObs == <<clock, elapsed, tickElapsed>>
countObs == <<invoked, drainedTotal, sinceDrain, window>>
procVars == <<tachExit, tachSigterm>>

\* a tachometer edge: gpiozero invokes pressed() in callback context c
Edge(c) ==
    /\ tachExit = "running" /\ cpc[c] = "idle"
    /\ invoked < MaxEdges
    /\ invoked' = invoked + 1
    /\ cpc' = [cpc EXCEPT ![c] = pressed_entry]
    /\ UNCHANGED <<pulse_count, pulse_lock, ctmp, mpc, mainLocals, timeObs, procVars,
                   drainedTotal, sinceDrain, window>>

\* line 22: with pulse_lock (enter)
PressedAcquire(c) ==
    /\ tachExit = "running" /\ cpc[c] = "acquire"
    /\ lock_available(c)
    /\ pulse_lock' = c
    /\ cpc' = [cpc EXCEPT ![c] = "load"]
    /\ UNCHANGED <<pulse_count, ctmp, mpc, mainLocals, timeObs, procVars, countObs>>

\* line 23: pulse_count += 1, the load of the global
PressedLoad(c) ==
    /\ tachExit = "running" /\ cpc[c] = "load"
    /\ ctmp' = [ctmp EXCEPT ![c] = pulse_count]
    /\ cpc' = [cpc EXCEPT ![c] = "store"]
    /\ UNCHANGED <<pulse_count, pulse_lock, mpc, mainLocals, timeObs, procVars, countObs>>

\* line 23: pulse_count += 1, the store to the global
PressedStore(c) ==
    /\ tachExit = "running" /\ cpc[c] = "store"
    /\ pulse_count' = ctmp[c] + 1
    /\ sinceDrain' = sinceDrain + 1
    /\ cpc' = [cpc EXCEPT ![c] = "release"]
    /\ UNCHANGED <<pulse_lock, ctmp, mpc, mainLocals, timeObs, procVars,
                   invoked, drainedTotal, window>>

\* line 23: with pulse_lock (exit); pressed() returns
PressedRelease(c) ==
    /\ tachExit = "running" /\ cpc[c] = "release"
    /\ pulse_lock' = Free
    /\ ctmp' = [ctmp EXCEPT ![c] = 0]
    /\ cpc' = [cpc EXCEPT ![c] = "idle"]
    /\ UNCHANGED <<pulse_count, mpc, mainLocals, timeObs, procVars, countObs>>

\* line 30: time.sleep(WAIT_TIME); the clock advances by d of its units
MainSleep ==
    /\ tachExit = "running" /\ mpc = "sleep"
    /\ \E d \in 0..MaxDt :
        /\ clock + d <= MaxClock
        /\ clock' = clock + d
        /\ elapsed' = elapsed + d
    /\ mpc' = "clock"
    /\ UNCHANGED <<pulse_count, pulse_lock, cpc, ctmp, mainLocals, tickElapsed,
                   procVars, countObs>>

\* lines 31-33: now = time.monotonic(); interval = now - last; last = now
MainClock ==
    /\ tachExit = "running" /\ mpc = "clock"
    /\ now' = clock
    /\ interval' = clock - last
    /\ last' = clock
    /\ tickElapsed' = elapsed
    /\ elapsed' = 0
    /\ mpc' = "acquire"
    /\ UNCHANGED <<pulse_count, pulse_lock, cpc, ctmp, clock, pulses, rpm, printed,
                   procVars, countObs>>

\* line 34: with pulse_lock (enter)
MainAcquire ==
    /\ tachExit = "running" /\ mpc = "acquire"
    /\ lock_available(Main)
    /\ pulse_lock' = Main
    /\ mpc' = "read"
    /\ UNCHANGED <<pulse_count, cpc, ctmp, mainLocals, timeObs, procVars, countObs>>

\* line 35: pulses = pulse_count
MainRead ==
    /\ tachExit = "running" /\ mpc = "read"
    /\ pulses' = pulse_count
    /\ mpc' = "reset"
    /\ UNCHANGED <<pulse_count, pulse_lock, cpc, ctmp, last, now, interval, rpm, printed,
                   timeObs, procVars, countObs>>

\* line 36: pulse_count = 0; the drain has returned `pulses`
MainReset ==
    /\ tachExit = "running" /\ mpc = "reset"
    /\ pulse_count' = 0
    /\ drainedTotal' = drainedTotal + pulses
    /\ window' = sinceDrain
    /\ sinceDrain' = 0
    /\ mpc' = "release"
    /\ UNCHANGED <<pulse_lock, cpc, ctmp, mainLocals, timeObs, procVars, invoked>>

\* line 36: with pulse_lock (exit)
MainRelease ==
    /\ tachExit = "running" /\ mpc = "release"
    /\ pulse_lock' = Free
    /\ mpc' = "compute"
    /\ UNCHANGED <<pulse_count, cpc, ctmp, mainLocals, timeObs, procVars, countObs>>

\* lines 37-39
MainCompute ==
    /\ tachExit = "running" /\ mpc = "compute"
    /\ rpm' = estimate_rpm(pulses, interval)
    /\ mpc' = "print"
    /\ UNCHANGED <<pulse_count, pulse_lock, cpc, ctmp, last, now, interval, pulses,
                   printed, timeObs, procVars, countObs>>

\* line 40
MainPrint ==
    /\ tachExit = "running" /\ mpc = "print"
    /\ printed' = format_f0(rpm)
    /\ mpc' = "sleep"
    /\ UNCHANGED <<pulse_count, pulse_lock, cpc, ctmp, last, now, interval, pulses, rpm,
                   timeObs, procVars, countObs>>

\* SIGTERM: the program installs no handler, so the default disposition ends the
\* process by the signal (no exit status; a shell reports 143)
TachSigTerm ==
    /\ tachExit = "running"
    /\ tachExit' = "killed"
    /\ tachSigterm' = TRUE
    /\ mpc' = "ended"
    /\ UNCHANGED <<pulse_count, pulse_lock, cpc, ctmp, mainLocals, timeObs, countObs>>

\* SIGINT: KeyboardInterrupt in the main thread; a `with` block it leaves releases
\* the lock; caught at line 42, exit()
TachSigInt ==
    /\ tachExit = "running"
    /\ tachExit' = "exit0"
    /\ pulse_lock' = IF pulse_lock = Main THEN Free ELSE pulse_lock
    /\ mpc' = "ended"
    /\ UNCHANGED <<pulse_count, cpc, ctmp, mainLocals, timeObs, tachSigterm, countObs>>

(***************************************************************************)
(* The specifications.                                                     *)
(***************************************************************************)
\* fan_control.py
Init == FanInit /\ TachInit
Next ==
    \/ FanInstallHandler /\ UNCHANGED tachVars
    \/ FanOpenPwm /\ UNCHANGED tachVars
    \/ FanSetFrequency /\ UNCHANGED tachVars
    \/ fpc = "resolve_profile" /\ \E f \in ProfileFiles : FanResolveProfile(f) /\ UNCHANGED tachVars
    \/ FanReadTemperature /\ UNCHANGED tachVars
    \/ handleFanSpeed /\ UNCHANGED tachVars
    \/ FanSleep /\ UNCHANGED tachVars
    \/ FanSigTerm /\ UNCHANGED tachVars
    \/ FanSigInt /\ UNCHANGED tachVars
Spec == Init /\ [][Next]_vars

\* read_fan_speed.py
TachSpecInit == TachInit /\ FanInit
TachSpecNext ==
    \/ \E c \in Callbacks : Edge(c) /\ UNCHANGED fanVars
    \/ \E c \in Callbacks : PressedAcquire(c) /\ UNCHANGED fanVars
    \/ \E c \in Callbacks : PressedLoad(c) /\ UNCHANGED fanVars
    \/ \E c \in Callbacks : PressedStore(c) /\ UNCHANGED fanVars
    \/ \E c \in Callbacks : PressedRelease(c) /\ UNCHANGED fanVars
    \/ MainSleep /\ UNCHANGED fanVars
    \/ MainClock /\ UNCHANGED fanVars
    \/ MainAcquire /\ UNCHANGED fanVars
    \/ MainRead /\ UNCHANGED fanVars
    \/ MainReset /\ UNCHANGED fanVars
    \/ MainRelease /\ UNCHANGED fanVars
    \/ MainCompute /\ UNCHANGED fanVars
    \/ MainPrint /\ UNCHANGED fanVars
    \/ TachSigTerm /\ UNCHANGED fanVars
    \/ TachSigInt /\ UNCHANGED fanVars
TachSpec == TachSpecInit /\ [][TachSpecNext]_vars

\* fan_control.py at line 199, for each override file
ProfileInit ==
    /\ TachInit
    /\ fpc = "resolve_profile"
    /\ fanExit = "running"
    /\ raised = "none"
    /\ profile = None
    /\ curve_fn = None
    /\ temperature = Unset
    /\ speed = Unset
    /\ fanState = NoCall
    /\ tickActions = <<>>
    /\ fanSigterm = FALSE
    /\ pfile \in ProfileFiles
ProfileNext == FanResolveProfile(pfile) /\ UNCHANGED tachVars
ProfileSpec == ProfileInit /\ [][ProfileNext]_vars

(***************************************************************************)
(* Properties.                                                             *)
(***************************************************************************)
\* the current tick of fan_control.py has run handleFanSpeed, so `speed` and the
\* recorded PWM call belong to `temperature`
Handled == tickActions # <<>>

InFlight == {c \in Callbacks : cpc[c] \in {"acquire", "load", "store"}}

\* C1: no pulse is lost or counted twice.  In every state the counts the drains
\* returned, plus the counter, plus the callbacks that have not stored their
\* increment yet, add up to the number of callback invocations; and whenever a
\* drain is complete the count it returned is exactly the number of callbacks
\* that completed since the drain before it.
C1_NoPulseLostOrDuplicated ==
    /\ drainedTotal + pulse_count + Cardinality(InFlight) = invoked
    /\ mpc \notin {"reset", "ended"} => pulses = window

\* C1 witness: a second drain returned 2 after a first drain returned 1, while a
\* fourth callback was waiting for the lock
C1_Witness ==
    /\ mpc = "release"
    /\ pulses = 2
    /\ drainedTotal = 3
    /\ \E c \in Callbacks : cpc[c] = "acquire"

\* C2: a failed temperature read costs only its tick: the exception it raised
\* does not end the process.
C2_SensorFailureSkipsTick ==
    raised = "sensor" => fanExit # "fault"

\* C3: a failed PWM write does not end the process; leaving aside the sensor
\* failure of C2, the only exception that ends the process is the failure to
\* open the PWM device at startup.
C3_PwmWriteFailureKeepsLooping ==
    /\ raised = "pwm_write" => fanExit # "fault"
    /\ (fanExit = "fault" /\ raised # "sensor") => raised = "pwm_open"

\* C4: a SIGTERM delivered while a periodic loop runs ends the process with exit
\* status 0, in the duty-control process and in the RPM-reading process.
C4_SigtermExitsZero ==
    /\ fanSigterm => fanExit = "exit0"
    /\ tachSigterm => tachExit = "exit0"

\* C5: a tick that read a temperature issues exactly one PWM call: off() if and
\* only if the computed duty is <= 0, else a write of the duty, which lies in
\* (0, 1]; the device never holds a written value outside (0, 1].
C5_OnePwmActionPerTick ==
    /\ Len(tickActions) <= 1
    /\ Handled =>
        /\ tickActions[1].op \in {"off", "value"}
        /\ tickActions[1].op = "off" <=> RatLE(speed, Zero)
        /\ tickActions[1].op = "value" =>
            /\ tickActions[1].v = speed
            /\ RatLT(Zero, speed) /\ RatLE(speed, One)
    /\ fpc = "sleep" => (Handled /\ fanState = tickActions[1])
    /\ fanState.op = "value" => (RatLT(Zero, fanState.v) /\ RatLE(fanState.v, One))

\* C5 witness: at exactly MIN_TEMP the duty is 0 and the tick called off()
C5_Witness ==
    /\ fpc = "sleep"
    /\ temperature = Int2Rat(MIN_TEMP)
    /\ curve_fn = "ease_out_curve"
    /\ tickActions = <<OffCall>>

\* C6: for every profile, a temperature at or below OFF_TEMP, or between OFF_TEMP
\* and MIN_TEMP, gives the duty 0.
C6_ZeroBelowMinTemp ==
    Handled =>
        /\ RatLE(temperature, Int2Rat(OFF_TEMP)) => speed = Zero
        /\ (RatLT(Int2Rat(OFF_TEMP), temperature) /\ RatLT(temperature, Int2Rat(MIN_TEMP)))
              => speed = Zero

\* C6 witness: 42.5 degrees, inside the band, with the ease-out curve
C6_Witness ==
    /\ Handled
    /\ temperature = Rat(85, 2)
    /\ curve_fn = "ease_out_curve"
    /\ speed = Zero

\* C7: with the linear profile the duty is 1 from MAX_TEMP on and the linear
\* fraction (t - MIN_TEMP) / (MAX_TEMP - MIN_TEMP) between MIN_TEMP and MAX_TEMP;
\* 57.5 degrees gives 0.5.
C7_LinearDuty ==
    (Handled /\ profile = LINEAR) =>
        /\ RatLE(Int2Rat(MAX_TEMP), temperature) => speed = One
        /\ (RatLE(Int2Rat(MIN_TEMP), temperature) /\ RatLE(temperature, Int2Rat(MAX_TEMP)))
              => speed = Rat(temperature[1] - MIN_TEMP * temperature[2],
                             (MAX_TEMP - MIN_TEMP) * temperature[2])
        /\ temperature = Rat(115, 2) => speed = Half

\* C7 witness: 57.5 degrees with the linear profile
C7_Witness ==
    /\ Handled
    /\ profile = LINEAR
    /\ temperature = Rat(115, 2)
    /\ speed = Half

\* C8: the RPM of a tick is 30 * (callbacks completed since the previous drain) /
\* (clock time since the previous clock read) when that time is positive, and 0
\* when it is not; nothing of an earlier tick enters it.
C8_RpmFromThisTickOnly ==
    mpc \in {"print", "sleep", "clock"} =>
        /\ tickElapsed > 0 => rpm = Rat(window * 60, PULSE * tickElapsed)
        /\ tickElapsed <= 0 => rpm = Zero
        /\ (window = 4 /\ tickElapsed = 2) => rpm = Int2Rat(60)

\* C8 witness: a second tick, 2 pulses in 2 clock units (30 RPM), after a first
\* tick that drained 2 pulses as well
C8_Witness ==
    /\ mpc = "print"
    /\ drainedTotal = 4
    /\ window = 2
    /\ tickElapsed = 2
    /\ rpm = Int2Rat(30)

\* what the override file's word stands for
ExpectedProfile(w) ==
    IF w = W_linear THEN LINEAR
    ELSE IF w = W_ease_in THEN EASE_IN
    ELSE IF w = W_ease_out THEN EASE_OUT
    ELSE IF w = W_ease_in_out THEN EASE_IN_OUT
    ELSE LINEAR

C10_LockDiscipline ==
    /\ \A c \in Callbacks :
        /\ cpc[c] \in {"load", "store", "release"} => pulse_lock = c
        /\ cpc[c] \in {"idle", "acquire"} => pulse_lock # c
    /\ mpc \in {"read", "reset", "release"} => pulse_lock = Main
    /\ (mpc \in {"sleep", "clock", "acquire", "compute", "print"} \/ tachExit = "exit0")
          => pulse_lock # Main
    /\ Cardinality({c \in Callbacks : cpc[c] \in {"load", "store", "release"}}
                   \cup (IF mpc \in {"read", "reset", "release"} THEN {Main} ELSE {})) <= 1

\* C10 witness: a callback waits for the lock while the main thread, having read
\* a count of 1, is about to reset the counter
C10_Witness ==
    /\ mpc = "reset"
    /\ pulse_lock = Main
    /\ pulses = 1
    /\ \E c \in Callbacks : cpc[c] = "acquire"

====
